---------------------------- MODULE Spec2Model ----------------------------
(***************************************************************************)
(* A model of bin/build_config_map.py: the frontmatter extractor           *)
(* (parse_frontmatter), the collection scanner (parse_dir) and the main     *)
(* block that calls them.                                                   *)
(*                                                                          *)
(* Text is a sequence of one-character strings.  A Python value is a        *)
(* tagged record [t, v]: None, str, int, list and dict (an insertion-       *)
(* ordered sequence of <<key, value>> pairs).                               *)
(***************************************************************************)
EXTENDS Integers, Sequences, FiniteSets, TLC

VARIABLES
    fs,           \* the filesystem: path -> directory (entry name -> file), or NotADir
    argv_dir,     \* args.directory
    argv_fields,  \* args.fields
    scanpath,     \* the module global scanpath (Unset until the main block binds it)
    pc,           \* where the interpreter is
    caller,       \* who made the parse_dir call in progress: "main" or "lib"
    file_path,    \* parse_dir's first parameter
    field_list,   \* parse_dir's second parameter
    queue,        \* what the for loop of parse_dir has still to visit
    scanned,      \* the file names the loop has visited, in order
    all_data,     \* parse_dir's all_data
    origin,       \* for each record of all_data, the file name that produced it
    data,         \* what the last parse_frontmatter call returned
    loaded,       \* the texts the last parse_frontmatter call handed to yaml.safe_load
    stderr,       \* diagnostics written since the operation began
    stdout,       \* standard output written since the operation began
    output,       \* what parse_dir returned
    exit_status   \* the process's exit status, NoStatus while it runs

vars == <<fs, argv_dir, argv_fields, scanpath, pc, caller, file_path,
          field_list, queue, scanned, all_data, origin, data, loaded,
          stderr, stdout, output, exit_status>>

-----------------------------------------------------------------------------
(* Bounds of the model. *)

MaxBodyLines == 2

MaxFiles == 3

-----------------------------------------------------------------------------
(* Text. *)

YAML_SEPARATOR == <<"-", "-", "-">>

Whitespace == {" ", "\n", "\t"}

RECURSIVE Flatten(_)
Flatten(ss) == IF ss = <<>> THEN <<>> ELSE Head(ss) \o Flatten(Tail(ss))

StartsWith(s, p) == Len(s) >= Len(p) /\ SubSeq(s, 1, Len(p)) = p

EndsWith(s, p) == Len(s) >= Len(p) /\ SubSeq(s, Len(s) - Len(p) + 1, Len(s)) = p

(* str.split(sep) for a non-empty sep: cut at every occurrence of sep, found
   left to right without overlap; always at least one part. *)
RECURSIVE SplitFrom(_, _, _)
SplitFrom(s, sep, cur) ==
    IF s = <<>> THEN <<cur>>
    ELSE IF StartsWith(s, sep)
         THEN <<cur>> \o SplitFrom(SubSeq(s, Len(sep) + 1, Len(s)), sep, <<>>)
         ELSE SplitFrom(Tail(s), sep, Append(cur, Head(s)))

split(s, sep) == SplitFrom(s, sep, <<>>)

RECURSIVE LStrip(_)
LStrip(s) == IF s # <<>> /\ Head(s) \in Whitespace THEN LStrip(Tail(s)) ELSE s

RECURSIVE RStrip(_)
RStrip(s) ==
    IF s # <<>> /\ s[Len(s)] \in Whitespace THEN RStrip(SubSeq(s, 1, Len(s) - 1)) ELSE s

strip(s) == RStrip(LStrip(s))

RECURSIVE Join(_, _)
Join(ss, sep) ==
    IF ss = <<>> THEN <<>>
    ELSE IF Len(ss) = 1 THEN ss[1]
    ELSE ss[1] \o sep \o Join(Tail(ss), sep)

-----------------------------------------------------------------------------
(* Python values. *)

None == [t |-> "null", v |-> <<>>]

PyStr(s) == [t |-> "str", v |-> s]

PyInt(s) == [t |-> "int", v |-> s]

PyList(items) == [t |-> "seq", v |-> items]

Dict(pairs) == [t |-> "map", v |-> pairs]

EmptyDict == Dict(<<>>)

HasKey(d, k) == \E i \in 1..Len(d.v) : d.v[i][1] = k

Lookup(d, k) == d.v[CHOOSE i \in 1..Len(d.v) : d.v[i][1] = k][2]

(* d[k] = x on a dict: a new key goes last, a present key keeps its place. *)
DictSet(d, k, x) ==
    IF HasKey(d, k)
    THEN Dict([i \in 1..Len(d.v) |-> IF d.v[i][1] = k THEN <<k, x>> ELSE d.v[i]])
    ELSE Dict(Append(d.v, <<k, x>>))

Keys(d) == [i \in 1..Len(d.v) |-> d.v[i][1]]

KeySet(d) == {d.v[i][1] : i \in 1..Len(d.v)}

(* bool(x) as the if statements of lines 38 and 53 take it. *)
Truthy(x) ==
    CASE x.t = "null" -> FALSE
      [] x.t = "int" -> x.v # <<"0">>
      [] OTHER -> x.v # <<>>

IsSubstring(p, s) == \E i \in 0..(Len(s) - Len(p)) : SubSeq(s, i + 1, i + Len(p)) = p

-----------------------------------------------------------------------------
(* yaml.safe_load, on the block-style subset the modelled files are written
   in: blank lines, "key: value" lines, "- item" lines and plain scalar
   lines, where a value or item is a plain scalar, ~, a one-line flow
   sequence [a, b] or a one-line flow mapping {k: v}.  The result is
   [ok, val]: ok is FALSE where the decoder raises. *)

Digits == {"0", "1", "2", "3", "4", "5", "6", "7", "8", "9"}

IsBlank(line) == \A i \in 1..Len(line) : line[i] \in Whitespace

(* A ":" that is a mapping value indicator: followed by a space or ending the line. *)
ColonAt(line, i) == line[i] = ":" /\ (i = Len(line) \/ line[i + 1] = " ")

HasColon(line) == \E i \in 1..Len(line) : ColonAt(line, i)

FirstColon(line) == CHOOSE i \in 1..Len(line) :
    ColonAt(line, i) /\ \A j \in 1..(i - 1) : ~ColonAt(line, j)

KeyText(line) == SubSeq(line, 1, FirstColon(line) - 1)

ValueText(line) == LStrip(SubSeq(line, FirstColon(line) + 1, Len(line)))

IsSeqLine(line) == StartsWith(line, <<"-", " ">>)

IsMapLine(line) == ~IsSeqLine(line) /\ HasColon(line) /\ KeyText(line) # <<>>

ItemText(line) == LStrip(SubSeq(line, 2, Len(line)))

(* The implicit tag resolution of a plain scalar. *)
Resolve(s) ==
    IF s = <<"~">> \/ s = <<>> THEN None
    ELSE IF \A i \in 1..Len(s) : s[i] \in Digits THEN PyInt(s)
    ELSE PyStr(s)

Ok(x) == [ok |-> TRUE, val |-> x]

Failed == [ok |-> FALSE, val |-> None]

Inner(s) == SubSeq(s, 2, Len(s) - 1)

(* A value or item: a flow sequence, a flow mapping of one pair, or a plain scalar. *)
ParseNode(s) ==
    IF s # <<>> /\ Head(s) = "[" THEN
        IF s[Len(s)] # "]" THEN Failed
        ELSE LET items == split(Inner(s), <<",", " ">>)
             IN  IF \E i \in 1..Len(items) : HasColon(items[i]) THEN Failed
                 ELSE Ok(PyList([i \in 1..Len(items) |-> Resolve(items[i])]))
    ELSE IF s # <<>> /\ Head(s) = "{" THEN
        IF s[Len(s)] # "}" \/ ~HasColon(Inner(s)) \/ HasColon(ValueText(Inner(s)))
        THEN Failed
        ELSE Ok(Dict(<< <<Resolve(KeyText(Inner(s))), Resolve(ValueText(Inner(s)))>> >>))
    ELSE IF HasColon(s) THEN Failed
    ELSE Ok(Resolve(s))

RECURSIVE LoadMapping(_, _)
LoadMapping(lines, acc) ==
    IF lines = <<>> THEN Ok(acc)
    ELSE IF ~IsMapLine(Head(lines)) THEN Failed
    ELSE LET node == ParseNode(ValueText(Head(lines)))
         IN  IF ~node.ok THEN Failed
             ELSE LoadMapping(Tail(lines),
                              DictSet(acc, Resolve(KeyText(Head(lines))), node.val))

RECURSIVE LoadSequence(_, _)
LoadSequence(lines, acc) ==
    IF lines = <<>> THEN Ok(PyList(acc))
    ELSE IF ~IsSeqLine(Head(lines)) THEN Failed
    ELSE LET node == ParseNode(ItemText(Head(lines)))
         IN  IF ~node.ok THEN Failed
             ELSE LoadSequence(Tail(lines), Append(acc, node.val))

(* A plain scalar runs over the following lines, folded with single spaces,
   and no line of it may hold a mapping value indicator. *)
LoadScalar(lines) ==
    IF \E i \in 1..Len(lines) : HasColon(lines[i]) THEN Failed
    ELSE IF Len(lines) = 1 THEN ParseNode(lines[1])
    ELSE Ok(PyStr(Join(lines, <<" ">>)))

safe_load(text) ==
    LET lines == SelectSeq(split(text, <<"\n">>), LAMBDA l : ~IsBlank(l))
    IN  IF lines = <<>> THEN Ok(None)
        ELSE IF IsSeqLine(lines[1]) THEN LoadSequence(lines, <<>>)
        ELSE IF IsMapLine(lines[1]) THEN LoadMapping(lines, EmptyDict)
        ELSE LoadScalar(lines)

-----------------------------------------------------------------------------
(* parse_frontmatter. *)

Warn(name) == [level |-> "WARN", name |-> name]

Error(name) == [level |-> "ERROR", name |-> name]

(* `field in data` (line 35): [exc, val]; exc where Python raises TypeError. *)
Contains(d, field) ==
    CASE d.t = "map" -> [exc |-> FALSE, val |-> HasKey(d, PyStr(field))]
      [] d.t = "str" -> [exc |-> FALSE, val |-> IsSubstring(field, d.v)]
      [] d.t = "seq" -> [exc |-> FALSE, val |-> \E i \in 1..Len(d.v) : d.v[i] = PyStr(field)]
      [] OTHER -> [exc |-> TRUE, val |-> FALSE]

(* `data[field]` (line 36) with a str subscript: a dict looks the key up, a
   str or a list raises TypeError. *)
GetItem(d, field) ==
    IF d.t = "map" THEN [exc |-> FALSE, val |-> Lookup(d, PyStr(field))]
    ELSE [exc |-> TRUE, val |-> None]

(* The loop of lines 34-36 from position i on: [exc, hash]. *)
RECURSIVE CopyFrom(_, _, _, _)
CopyFrom(d, fields, i, return_hash) ==
    IF i > Len(fields) THEN [exc |-> FALSE, hash |-> return_hash]
    ELSE LET has == Contains(d, fields[i])
         IN  IF has.exc THEN [exc |-> TRUE, hash |-> return_hash]
             ELSE IF ~has.val THEN CopyFrom(d, fields, i + 1, return_hash)
             ELSE LET item == GetItem(d, fields[i])
                  IN  IF item.exc THEN [exc |-> TRUE, hash |-> return_hash]
                      ELSE CopyFrom(d, fields, i + 1,
                                    DictSet(return_hash, PyStr(fields[i]), item.val))

(* The loop with a return inside it: it stops at the first requested field. *)
CopyFirstField(d, fields) == CopyFrom(d, SubSeq(fields, 1, 1), 1, EmptyDict)

(* The copy made by walking the decoded mapping instead of the request. *)
CopyInMappingOrder(d, fields) ==
    IF d.t # "map" THEN CopyFrom(d, fields, 1, EmptyDict)
    ELSE [exc |-> FALSE,
          hash |-> Dict(SelectSeq(d.v,
                     LAMBDA pair : \E i \in 1..Len(fields) : pair[1] = PyStr(fields[i])))]

CopyFields(d, fields) == CopyFrom(d, fields, 1, EmptyDict)

(* The test of line 23 taking one delimiter for enough. *)
NoFrontmatterTwoParts(parts) == Len(parts) < 2 \/ strip(parts[1]) # <<>>

(* Line 23: the file has no frontmatter at its top. *)
NoFrontmatter(parts) == Len(parts) < 3 \/ strip(parts[1]) # <<>>

(* Lines 38-41 without the emptiness test. *)
ReturnAlways(return_hash) == return_hash

(* Lines 38-41. *)
ReturnValue(return_hash) == IF Truthy(return_hash) THEN return_hash ELSE None

(* An except clause that diagnoses and raises again. *)
Reraise(name) ==
    [ret |-> None, diag |-> <<Error(name)>>, propagated |-> TRUE]

(* What the except clause of lines 42-47 does with an exception raised in
   the try block: it is caught, diagnosed, and None is returned. *)
OnException(name) ==
    [ret |-> None, diag |-> <<Error(name)>>, propagated |-> FALSE]

(* One call: [ret, diag, loaded, propagated].  ret is the returned value,
   diag what it wrote to stderr, loaded the texts it handed to
   yaml.safe_load, propagated whether an exception left the call. *)
parse_frontmatter(name, file, fields) ==
    IF ~file.readable
    THEN OnException(name) @@ [loaded |-> <<>>]
    ELSE LET content == file.text
             parts == split(content, YAML_SEPARATOR)
         IN  IF NoFrontmatter(parts)
             THEN [ret |-> None, diag |-> <<Warn(name)>>, loaded |-> <<>>,
                   propagated |-> FALSE]
             ELSE LET frontmatter == parts[2]
                      decoded == safe_load(frontmatter)
                      copied == CopyFields(decoded.val, fields)
                  IN  IF ~decoded.ok \/ copied.exc
                      THEN OnException(name) @@ [loaded |-> <<frontmatter>>]
                      ELSE [ret |-> ReturnValue(copied.hash), diag |-> <<>>,
                            loaded |-> <<frontmatter>>, propagated |-> FALSE]

-----------------------------------------------------------------------------
(* The filesystem, Path.glob and sorted. *)

Unset == "<unset>"

Directory(entries) == [is_dir |-> TRUE, entries |-> entries]

NotADir == [is_dir |-> FALSE, entries |-> <<>>]

(* Unicode code points of the characters file names are written in. *)
Ord(c) ==
    CASE c = "." -> 46
      [] c = "a" -> 97
      [] c = "b" -> 98
      [] c = "c" -> 99
      [] c = "d" -> 100
      [] c = "m" -> 109
      [] c = "t" -> 116
      [] c = "x" -> 120

(* a < b on str: by code point at the first difference, a proper prefix first. *)
RECURSIVE StrLess(_, _)
StrLess(a, b) ==
    IF b = <<>> THEN FALSE
    ELSE IF a = <<>> THEN TRUE
    ELSE IF Head(a) # Head(b) THEN Ord(Head(a)) < Ord(Head(b))
    ELSE StrLess(Tail(a), Tail(b))

(* The entries of directory dir that match the pattern *.md. *)
Glob(dir) == {n \in DOMAIN dir : EndsWith(n, <<".", "m", "d">>)}

(* The orders in which an iterator may yield the members of S. *)
Enumerations(S) ==
    {p \in [1..Cardinality(S) -> S] : \A i, j \in DOMAIN p : i # j => p[i] # p[j]}

RECURSIVE Insert(_, _)
Insert(x, seq) ==
    IF seq = <<>> THEN <<x>>
    ELSE IF StrLess(x, Head(seq)) THEN <<x>> \o seq
    ELSE <<Head(seq)>> \o Insert(x, Tail(seq))

RECURSIVE SortFrom(_, _)
SortFrom(seq, acc) ==
    IF seq = <<>> THEN acc ELSE SortFrom(Tail(seq), Insert(Head(seq), acc))

(* The loop taking the listing as the iterator yields it. *)
unsorted(seq) == seq

(* sorted() of paths of one directory: ascending by file name. *)
sorted(seq) == SortFrom(seq, <<>>)

-----------------------------------------------------------------------------
(* The inputs. *)

K == <<"k">>

M == <<"m">>

Z == <<"z">>

File(text) == [readable |-> TRUE, text |-> text]

(* An entry open() fails on. *)
Unreadable == [readable |-> FALSE, text |-> <<>>]

DelimiterLine == <<"-", "-", "-", "\n">>

(* The lines a frontmatter body is drawn from. *)
BodyLines == {
    <<"k", ":", " ", "v", "\n">>,
    <<"m", ":", " ", "w", "\n">>,
    <<"k", ":", " ", "~", "\n">>,
    <<"m", ":", " ", "[", "v", ",", " ", "w", "]", "\n">>,
    <<"m", ":", " ", "{", "k", ":", " ", "v", "}", "\n">>,
    <<"k", ":", " ", "v", "-", "-", "-", "w", "\n">>,
    <<"k", ":", " ", "v", ":", " ", "w", "\n">>,
    <<"-", " ", "k", "\n">>,
    <<"-", " ", "v", "\n">>,
    <<"v", "\n">>,
    <<"7", "\n">> }

Bodies == UNION {[1..n -> BodyLines] : n \in 0..MaxBodyLines}

(* What may stand before the first delimiter, and after the second. *)
Prefixes == {<<>>, <<" ", "\n">>, <<"x", "\n">>}

Suffixes == {<<>>, <<"w", "\n">> \o DelimiterLine \o <<"k", ":", " ", "w", "\n">>}

Contents ==
    {pre \o d1 \o Flatten(body) \o d2 \o post :
        pre \in Prefixes, d1 \in {<<>>, DelimiterLine}, body \in Bodies,
        d2 \in {<<>>, DelimiterLine}, post \in Suffixes}

ExtractFieldLists == {<<K>>, <<M, K>>, <<K, K, M>>, <<Z>>}

(* The directory scans: the entries a directory may hold and what is in them. *)
EntryNames == {
    <<"a", ".", "m", "d">>,
    <<"a", "b", ".", "m", "d">>,
    <<"b", ".", "m", "d">>,
    <<"c", ".", "t", "x", "t">> }

GoodText == DelimiterLine \o <<"k", ":", " ", "v", "\n", "m", ":", " ", "w", "\n">>
            \o DelimiterLine \o <<"w", "\n">>

SampleFiles == {
    File(GoodText),
    File(<<"w", "\n">>),
    File(DelimiterLine \o <<"m", ":", " ", "w", "\n">> \o DelimiterLine),
    File(DelimiterLine \o <<"k", ":", " ", "v", ":", " ", "w", "\n">> \o DelimiterLine),
    Unreadable }

Directories ==
    UNION {[S -> SampleFiles] : S \in {T \in SUBSET EntryNames : Cardinality(T) <= MaxFiles}}

DirB == [n \in {<<"b", ".", "m", "d">>} |-> File(GoodText)]

DirPaths == {"A", "B"}

ScanFieldLists == {<<K>>, <<M, K>>, <<Z>>}

-----------------------------------------------------------------------------
(* The program. *)

NoStatus == <<>>

Notice == [kind |-> "text", val |-> PyStr(<<"No valid Jekyll posts with relevant fields found.">>)]

(* print(yaml.dump(x)): one YAML document holding x (None is the document `null`). *)
YamlDocument(x) == [kind |-> "yaml", val |-> x]

ConfigMap(records) == Dict(<< <<PyStr(<<"config_map">>), PyList(records)>> >>)

(* Lines 50-51: parse_dir is entered with (d, fields); its loop is over
   sorted(scanpath.glob('*.md')), scanpath being the module global g. *)
EnterParseDir(d, fields, who, g) ==
    /\ caller' = who
    /\ file_path' = d
    /\ field_list' = fields
    /\ all_data' = <<>>
    /\ origin' = <<>>
    /\ scanned' = <<>>
    /\ data' = None
    /\ loaded' = <<>>
    /\ output' = None
    /\ IF g = Unset
       THEN \* NameError: name 'scanpath' is not defined
            /\ pc' = "raised"
            /\ queue' = <<>>
       ELSE /\ pc' = "scan"
            /\ \E listing \in Enumerations(Glob(fs[g].entries)) :
                   queue' = sorted(listing)

(* Lines 77-83 of the main block. *)
Main ==
    /\ pc = "main"
    /\ scanpath' = argv_dir
    /\ IF ~fs[argv_dir].is_dir
       THEN /\ stderr' = Append(stderr, Error(<<argv_dir>>))
            /\ exit_status' = <<1>>
            /\ pc' = "exited"
            /\ UNCHANGED <<caller, file_path, field_list, queue, scanned,
                           all_data, origin, data, loaded, output>>
       ELSE /\ EnterParseDir(argv_dir, argv_fields, "main", argv_dir)
            /\ UNCHANGED <<stderr, exit_status>>
    /\ UNCHANGED <<fs, argv_dir, argv_fields, stdout>>

(* parse_dir called by code that holds the module's namespace: an importer,
   or a session that outlives the main block. *)
Call(d, fields) ==
    /\ pc \in {"idle", "returned", "raised", "done"}
    /\ EnterParseDir(d, fields, "lib", scanpath)
    /\ stderr' = <<>>
    /\ stdout' = <<>>
    /\ UNCHANGED <<fs, argv_dir, argv_fields, scanpath, exit_status>>

(* Lines 51-54: one iteration of the loop. *)
LoopStep ==
    /\ pc = "scan"
    /\ queue # <<>>
    /\ LET name == Head(queue)
           r == parse_frontmatter(name, fs[scanpath].entries[name], field_list)
       IN  /\ queue' = Tail(queue)
           /\ scanned' = Append(scanned, name)
           /\ stderr' = stderr \o r.diag
           /\ loaded' = r.loaded
           /\ data' = r.ret
           /\ IF r.propagated
              THEN /\ pc' = "raised"
                   /\ UNCHANGED <<all_data, origin>>
              ELSE /\ pc' = pc
                   /\ IF Truthy(r.ret)
                      THEN /\ all_data' = Append(all_data, r.ret)
                           /\ origin' = Append(origin, name)
                      ELSE UNCHANGED <<all_data, origin>>
    /\ UNCHANGED <<fs, argv_dir, argv_fields, scanpath, caller, file_path,
                   field_list, stdout, output, exit_status>>

(* Lines 56-60: the loop is over. *)
ParseDirReturn ==
    /\ pc = "scan"
    /\ queue = <<>>
    /\ IF ~Truthy(PyList(all_data))
       THEN /\ stdout' = Append(stdout, Notice)
            /\ output' = None
       ELSE /\ stdout' = stdout
            /\ output' = ConfigMap(all_data)
    /\ pc' = IF caller = "main" THEN "print" ELSE "returned"
    /\ UNCHANGED <<fs, argv_dir, argv_fields, scanpath, caller, file_path,
                   field_list, queue, scanned, all_data, origin, data, loaded,
                   stderr, exit_status>>

(* Line 84, and the end of the script. *)
MainPrint ==
    /\ pc = "print"
    /\ stdout' = Append(stdout, YamlDocument(output))
    /\ exit_status' = <<0>>
    /\ pc' = "done"
    /\ UNCHANGED <<fs, argv_dir, argv_fields, scanpath, caller, file_path,
                   field_list, queue, scanned, all_data, origin, data, loaded,
                   stderr, output>>

Quiet ==
    /\ scanpath = Unset
    /\ caller = "none"
    /\ file_path = Unset
    /\ field_list = <<>>
    /\ queue = <<>>
    /\ scanned = <<>>
    /\ all_data = <<>>
    /\ origin = <<>>
    /\ data = None
    /\ loaded = <<>>
    /\ stderr = <<>>
    /\ stdout = <<>>
    /\ output = None
    /\ exit_status = NoStatus

(* The module is run as a script with (directory, fields...) on its command
   line, or imported. *)
Init ==
    /\ \E d \in Directories :
          fs = [p \in {"A", "B", "N"} |->
                  CASE p = "A" -> Directory(d)
                    [] p = "B" -> Directory(DirB)
                    [] OTHER -> NotADir]
    /\ \/ /\ pc = "main"
          /\ argv_dir \in {"A", "B", "N"}
          /\ argv_fields \in ScanFieldLists
       \/ /\ pc = "idle"
          /\ argv_dir = Unset
          /\ argv_fields = <<>>
    /\ Quiet

Next ==
    \/ Main
    \/ \E d \in DirPaths, fields \in ScanFieldLists : Call(d, fields)
    \/ LoopStep
    \/ ParseDirReturn
    \/ MainPrint

Spec == Init /\ [][Next]_vars

(* While a call of parse_dir is in its loop the interpreter goes on running
   it: the next step, seen on <<pc, queue>>, either takes the head off the
   queue (LoopStep) or leaves the loop (ParseDirReturn).  Running is enabled
   exactly when pc = "scan", and every step Next allows from such a state is
   a Running step, so the condition is weak fairness of the loop's steps. *)
Running ==
    /\ pc = "scan"
    /\ pc' \in {"scan", "print", "returned"}
    /\ queue' = IF queue = <<>> THEN queue ELSE Tail(queue)

FairSpec == Spec /\ WF_<<pc, queue>>(Running)

(* The extractor alone: the scan of a directory that holds one file, of any
   of the modelled contents, at the point where the loop is entered. *)
InitExtract ==
    /\ \E file \in {File(text) : text \in Contents} \cup {Unreadable} :
          fs = [p \in {"A"} |-> Directory([n \in {<<"a", ".", "m", "d">>} |-> file])]
    /\ argv_dir = "A"
    /\ argv_fields \in ExtractFieldLists
    /\ scanpath = "A"
    /\ pc = "scan"
    /\ caller = "main"
    /\ file_path = "A"
    /\ field_list = argv_fields
    /\ queue = <<<<"a", ".", "m", "d">>>>
    /\ scanned = <<>>
    /\ all_data = <<>>
    /\ origin = <<>>
    /\ data = None
    /\ loaded = <<>>
    /\ stderr = <<>>
    /\ stdout = <<>>
    /\ output = None
    /\ exit_status = NoStatus

NextExtract == LoopStep \/ ParseDirReturn

SpecExtract == InitExtract /\ [][NextExtract]_vars

-----------------------------------------------------------------------------
(* What the properties speak of. *)

(* Strictly ascending by file name. *)
IsSorted(seq) == \A i \in 1..(Len(seq) - 1) : StrLess(seq[i], seq[i + 1])

Range(seq) == {seq[i] : i \in 1..Len(seq)}

(* The file the loop visited last, once it has visited one. *)
Visited == scanned # <<>>

LastName == scanned[Len(scanned)]

LastFile == fs[scanpath].entries[LastName]

Segments(text) == split(text, YAML_SEPARATOR)

(* Empty-after-trim text before the first delimiter, at least two delimiters. *)
WellFormed(text) == Len(Segments(text)) >= 3 /\ IsBlank(Segments(text)[1])

Decoded(text) == safe_load(Segments(text)[2])

(* The file is readable and well-formed and its frontmatter decodes to a mapping. *)
HasMapping(file) ==
    /\ file.readable
    /\ WellFormed(file.text)
    /\ Decoded(file.text).ok
    /\ Decoded(file.text).val.t = "map"

Requested(fields) == {PyStr(fields[i]) : i \in 1..Len(fields)}

(* The file has a mapping that holds one of the requested fields. *)
Yields(file, fields) ==
    HasMapping(file) /\ KeySet(Decoded(file.text).val) \cap Requested(fields) # {}

(* The members of seq that are in S, in seq's order, each once. *)
RECURSIVE FirstOccurrences(_, _)
FirstOccurrences(seq, S) ==
    IF seq = <<>> THEN <<>>
    ELSE IF Head(seq) \in S
         THEN <<Head(seq)>> \o FirstOccurrences(Tail(seq), S \ {Head(seq)})
         ELSE FirstOccurrences(Tail(seq), S)

RequestOrder(fields) == [i \in 1..Len(fields) |-> PyStr(fields[i])]

(* The lines of text, and the text between its first two lines that are
   exactly ---. *)
TextLines(text) == split(text, <<"\n">>)

DelimiterLineIndexes(text) == {i \in 1..Len(TextLines(text)) : TextLines(text)[i] = YAML_SEPARATOR}

Min(S) == CHOOSE x \in S : \A y \in S : x <= y

BlockBetweenDelimiterLines(text) ==
    LET first == Min(DelimiterLineIndexes(text))
        second == Min(DelimiterLineIndexes(text) \ {first})
    IN  Join(SubSeq(TextLines(text), first + 1, second - 1), <<"\n">>)

-----------------------------------------------------------------------------
(* The extractor's properties, under SpecExtract. *)

(* C1: for a well-formed file whose frontmatter decodes to a mapping M that
   holds at least one requested field, parse_frontmatter returns a record
   whose key set is keys(M) intersected with the request and whose values
   are M's, unchanged; a field requested twice adds nothing. *)
C1_RecordIsRequestedSubset ==
    (Visited /\ Yields(LastFile, field_list)) =>
        LET mapping == Decoded(LastFile.text).val
        IN  /\ data.t = "map"
            /\ KeySet(data) = KeySet(mapping) \cap Requested(field_list)
            /\ Cardinality(KeySet(data)) = Len(data.v)
            /\ \A k \in KeySet(data) : Lookup(data, k) = Lookup(mapping, k)

(* A record of two fields, one requested twice, carrying a null and a sequence. *)
C1_Witness ==
    /\ Visited
    /\ Yields(LastFile, field_list)
    /\ field_list = <<K, K, M>>
    /\ data.t = "map"
    /\ Len(data.v) = 2
    /\ Lookup(data, PyStr(K)) = None
    /\ Lookup(data, PyStr(M)).t = "seq"

(* C9, as stated: the keys of a returned record appear in the key order of
   the decoded mapping, not in the order of the request. *)
C9_KeysInMappingOrder ==
    (Visited /\ Yields(LastFile, field_list)) =>
        Keys(data) = FirstOccurrences(Keys(Decoded(LastFile.text).val),
                                      Requested(field_list))

(* C9, amended: the keys of a returned record appear in the order of the
   request (each at its first occurrence there), whatever the key order of
   the decoded mapping. *)
C9_KeysInRequestOrder ==
    (Visited /\ Yields(LastFile, field_list)) =>
        Keys(data) = FirstOccurrences(RequestOrder(field_list),
                                      KeySet(Decoded(LastFile.text).val))

(* The mapping has k before m, the request m before k, the record m before k. *)
C9_Witness ==
    /\ Visited
    /\ Yields(LastFile, field_list)
    /\ field_list = <<M, K>>
    /\ Keys(Decoded(LastFile.text).val) = <<PyStr(K), PyStr(M)>>
    /\ Keys(data) = <<PyStr(M), PyStr(K)>>

(* C5: for a file whose text splits on --- into fewer than 3 segments, or
   whose text before the first --- is not blank, parse_frontmatter returns
   no record, writes exactly one WARN diagnostic naming the file and no
   ERROR diagnostic, and decodes nothing. *)
C5_NoFrontmatterWarns ==
    (Visited /\ Len(scanned) = 1 /\ LastFile.readable /\ ~WellFormed(LastFile.text)) =>
        /\ data = None
        /\ all_data = <<>>
        /\ stderr = <<Warn(LastName)>>
        /\ loaded = <<>>

(* A file with two delimiters and text before the first was skipped with a warning. *)
C5_Witness ==
    /\ Visited
    /\ LastFile.readable
    /\ Len(Segments(LastFile.text)) >= 3
    /\ ~IsBlank(Segments(LastFile.text)[1])
    /\ stderr = <<Warn(LastName)>>
    /\ loaded = <<>>

(* C4: for a well-formed file whose frontmatter segment fails to decode, or
   decodes to a value that is not a mapping, the scan yields no record and
   writes an ERROR diagnostic naming the file. *)
C4_NonMappingIsDiagnosed ==
    (Visited /\ Len(scanned) = 1 /\ LastFile.readable /\ WellFormed(LastFile.text)
        /\ ~HasMapping(LastFile)) =>
        /\ data = None
        /\ all_data = <<>>
        /\ Error(LastName) \in Range(stderr)

(* C8: the frontmatter block is delimited by lines that are exactly ---:
   text is decoded only when the file has two such lines, and what is
   decoded is the whole text between the first and the next of them. *)
C8_DelimitersAreWholeLines ==
    (Visited /\ loaded # <<>>) =>
        /\ Cardinality(DelimiterLineIndexes(LastFile.text)) >= 2
        /\ strip(loaded[1]) = strip(BlockBetweenDelimiterLines(LastFile.text))

-----------------------------------------------------------------------------
(* The scanner's properties, under Spec (C7 under FairSpec). *)

(* parse_dir has returned to its caller. *)
Returned == pc \in {"print", "returned"}

(* The *.md entries of the directory the loop went over. *)
Matched == Glob(fs[scanpath].entries)

(* C2: whatever the order in which the directory is enumerated, the records
   of the returned list are in ascending order of the names of the files
   that produced them, and every matched file that yields a record has
   exactly one record in it. *)
C2_RecordsInFilenameOrder ==
    /\ Len(origin) = Len(all_data)
    /\ IsSorted(origin)
    /\ Returned =>
          Range(origin) = {n \in Matched : Yields(fs[scanpath].entries[n], field_list)}

(* A scan returned three records. *)
C2_Witness == Returned /\ Len(origin) = 3 /\ Len(all_data) = 3

(* C3: at every point of a scan every record held in the collection is a
   non-empty mapping, only a file with a mapping that holds a requested
   field has put a record there, and parse_frontmatter never returns an
   empty mapping. *)
C3_RecordsAreNonEmpty ==
    /\ \A i \in 1..Len(all_data) : all_data[i].t = "map" /\ all_data[i].v # <<>>
    /\ data # EmptyDict
    /\ Len(origin) = Len(all_data)
    /\ scanned # <<>> => (Truthy(data) <=> Yields(LastFile, field_list))
    /\ pc # "raised" =>
          \A n \in Range(scanned) :
              n \in Range(origin) <=> Yields(fs[scanpath].entries[n], field_list)

(* In the middle of a scan the collection holds one record and two files were skipped,
   one of them having a mapping without any requested field. *)
C3_Witness ==
    /\ pc = "scan"
    /\ Len(scanned) = 3
    /\ Len(all_data) = 1
    /\ stderr # <<>>
    /\ \E n \in Range(scanned) :
          HasMapping(fs[scanpath].entries[n]) /\ ~Yields(fs[scanpath].entries[n], field_list)

(* C6: when the script's scan of a valid directory produces no record,
   standard output holds the notice and nothing else, and the exit status
   is 0. *)
C6_OnlyNoticeOnEmptyResult ==
    (pc = "done" /\ all_data = <<>>) =>
        /\ stdout = <<Notice>>
        /\ exit_status = <<0>>

(* C7: a scan that has started completes: no failure of a file leaves
   parse_dir, every matched file is visited exactly once in sorted order,
   files after a failing one are visited and their records collected, and
   parse_dir eventually returns. *)
C7_ScanCompletes ==
    /\ [][pc = "scan" => pc' \in {"scan", "print", "returned"}]_vars
    /\ [](pc = "scan" =>
            /\ scanned \o queue = sorted(scanned \o queue)
            /\ Range(scanned \o queue) = Matched
            /\ Len(scanned \o queue) = Cardinality(Matched))
    /\ [](Returned =>
            /\ queue = <<>>
            /\ Len(scanned) = Cardinality(Matched)
            /\ Range(scanned) = Matched
            /\ Range(origin) =
                  {n \in Matched : Yields(fs[scanpath].entries[n], field_list)})
    /\ (pc = "scan") ~> Returned

(* A scan returned the record of a file that came after an unreadable file
   and a file that failed to decode. *)
C7_Witness ==
    /\ Returned
    /\ Len(scanned) = 3
    /\ ~fs[scanpath].entries[scanned[1]].readable
    /\ fs[scanpath].entries[scanned[2]].readable
    /\ WellFormed(fs[scanpath].entries[scanned[2]].text)
    /\ ~Decoded(fs[scanpath].entries[scanned[2]].text).ok
    /\ origin = <<scanned[3]>>
    /\ Len(stderr) = 2

(* C10: parse_dir(directoryPath, fields) enumerates the *.md entries of the
   directory passed as its first argument, whatever the state outside its
   parameters: every call goes over that directory and returns. *)
C10_ScansItsArgument ==
    /\ pc # "raised"
    /\ pc = "scan" => Range(scanned \o queue) = Glob(fs[file_path].entries)
    /\ Returned => Range(scanned) = Glob(fs[file_path].entries)

=============================================================================
